---- MODULE Spec2Model ----
(***************************************************************************)
(* A model of src/models/demand_ninja.py and src/models/wind.py.           *)
(*                                                                         *)
(* The four public functions are pure: each call is one action that takes  *)
(* the arguments drawn by Init and leaves the returned array (or the       *)
(* raised error) in the state.                                             *)
(*                                                                         *)
(* Numbers.  A float is modelled as an exact rational, or as one of the    *)
(* IEEE-754 specials NaN, +inf, -inf:                                      *)
(*     [k |-> "num", n |-> numerator, d |-> denominator > 0]  (reduced)    *)
(*     [k |-> "nan", n |-> 0, d |-> 1]                                     *)
(*     [k |-> "inf", n |-> +1 or -1, d |-> 1]                              *)
(* Rounding of finite results is not modelled; NaN and infinity are, with  *)
(* the IEEE rules (NaN * 0 = NaN, x / 0 = inf, 0 / 0 = NaN, every          *)
(* comparison with NaN is false).                                          *)
(*                                                                         *)
(* Arrays.  An xarray DataArray over the 'step' dimension is a sequence;   *)
(* step t of the source (0-indexed) is element t + 1.                      *)
(***************************************************************************)
EXTENDS Integers, Sequences, FiniteSets

VARIABLES fn, args, pc, ret

vars == <<fn, args, pc, ret>>

(* ------------------------------ bounds -------------------------------- *)

\* longest series handed to smooth_temperature_xarray
MaxLen == 4
\* longest weight list handed to smooth_temperature_xarray
MaxW == 3
\* number of steps of the weather bundles handed to _bait_xarray
NumSteps == 16
\* longest temperature array handed to get_hdd / get_cdd
MaxCells == 2

(* --------------------------- float arithmetic ------------------------- *)

Abs(x) == IF x < 0 THEN -x ELSE x

RECURSIVE GCD(_, _)
GCD(a, b) == IF b = 0 THEN a ELSE GCD(b, a % b)

Sign(x) == IF x < 0 THEN -1 ELSE IF x > 0 THEN 1 ELSE 0

NaN == [k |-> "nan", n |-> 0, d |-> 1]

Inf(s) == [k |-> "inf", n |-> s, d |-> 1]

\* the float n/d (d # 0), reduced
Num(n, d) ==
    LET g == GCD(Abs(n), Abs(d))
        s == IF d < 0 THEN -1 ELSE 1
    IN  [k |-> "num", n |-> s * (n \div g), d |-> s * (d \div g)]

Whole(n) == [k |-> "num", n |-> n, d |-> 1]

isnull(v) == v.k = "nan"

Neg(a) == IF a.k = "nan" THEN NaN ELSE [a EXCEPT !.n = -a.n]

Mul(a, b) ==
    CASE a.k = "nan" \/ b.k = "nan" -> NaN
      [] a.k = "inf" \/ b.k = "inf" ->
            IF a.n = 0 \/ b.n = 0 THEN NaN ELSE Inf(Sign(a.n) * Sign(b.n))
      [] OTHER ->
            LET g1 == GCD(Abs(a.n), b.d)
                g2 == GCD(Abs(b.n), a.d)
            IN  Num((a.n \div g1) * (b.n \div g2), (a.d \div g2) * (b.d \div g1))

Add(a, b) ==
    CASE a.k = "nan" \/ b.k = "nan" -> NaN
      [] a.k = "inf" /\ b.k = "inf" -> IF a.n = b.n THEN a ELSE NaN
      [] a.k = "inf" -> a
      [] b.k = "inf" -> b
      [] OTHER ->
            LET g == GCD(a.d, b.d)
            IN  Num(a.n * (b.d \div g) + b.n * (a.d \div g), (a.d \div g) * b.d)

Sub(a, b) == Add(a, Neg(b))

Div(a, b) ==
    CASE a.k = "nan" \/ b.k = "nan" -> NaN
      [] a.k = "inf" /\ b.k = "inf" -> NaN
      [] a.k = "inf" -> Inf(IF b.n < 0 THEN -a.n ELSE a.n)
      [] b.k = "inf" -> Whole(0)
      [] b.n = 0 -> IF a.n = 0 THEN NaN ELSE Inf(Sign(a.n))
      [] OTHER -> Mul(a, Num(b.d, b.n))

\* a < b as the float comparison: false when either side is NaN
Lt(a, b) ==
    CASE a.k = "nan" \/ b.k = "nan" -> FALSE
      [] a.k = "inf" /\ b.k = "inf" -> a.n < b.n
      [] a.k = "inf" -> a.n < 0
      [] b.k = "inf" -> b.n > 0
      [] OTHER -> a.n * b.d < b.n * a.d

Gt(a, b) == Lt(b, a)

Le(a, b) == IF a.k = "nan" \/ b.k = "nan" THEN FALSE ELSE ~Lt(b, a)

Ge(a, b) == Le(b, a)

RECURSIVE SumSeq(_)
SumSeq(s) == IF s = <<>> THEN Whole(0) ELSE Add(SumSeq(SubSeq(s, 1, Len(s) - 1)), s[Len(s)])

Reverse(s) == [i \in 1..Len(s) |-> s[Len(s) + 1 - i]]

(* --------------------- smooth_temperature_xarray ---------------------- *)

\* mutant: the positions before the first step hold the first step's value
\* (the padding of the pandas implementation) instead of NaN
construct_pad_first(temperature, W) ==
    [t \in 1..Len(temperature) |->
        [j \in 1..W |-> IF t - W + j >= 1 THEN temperature[t - W + j] ELSE temperature[1]]]

\* temperature.rolling(step=W, min_periods=1).construct('window'):
\* row t holds steps t-W+1 .. t, the positions before the first step padded
\* with NaN
construct(temperature, W) ==
    [t \in 1..Len(temperature) |->
        [j \in 1..W |-> IF t - W + j >= 1 THEN temperature[t - W + j] ELSE NaN]]

\* mutant: missing entries are filled with 0 whatever fill_value is
fillna_zero(v, fill_value) == IF isnull(v) THEN Whole(0) ELSE v

fillna(v, fill_value) == IF isnull(v) THEN fill_value ELSE v

\* .dot(weights_da, dims=['window'])
dot(window, weights_da) ==
    SumSeq([j \in 1..Len(weights_da) |-> Mul(window[j], weights_da[j])])

\* the slice weights[-(i+1):] of the (already reversed) list
LastSlice(weights, i) ==
    SubSeq(weights, IF Len(weights) - i < 1 THEN 1 ELSE Len(weights) - i, Len(weights))

\* for i in range(len(weights)): normalization_factors[:i+1] = sum(weights[-(i+1):])
RECURSIVE normalization_loop(_, _, _)
normalization_loop(normalization_factors, weights, i) ==
    IF i >= Len(weights) THEN normalization_factors
    ELSE LET truncated_weights_sum == SumSeq(LastSlice(weights, i))
         IN  normalization_loop(
                [p \in 1..Len(normalization_factors) |->
                    IF p <= i + 1 THEN truncated_weights_sum
                    ELSE normalization_factors[p]],
                weights, i + 1)

\* mutant: the weights are used in the order given
chronological_unreversed(weights) == weights

\* weights = weights[::-1]
chronological(weights) == Reverse(weights)

\* mutant: the assertion is gone
assert_skipped(temperature) == TRUE

\* assert temperature.isnull().sum() == 0
assert_no_nans(temperature) == \A t \in 1..Len(temperature) : ~isnull(temperature[t])

\* the value returned when no assertion fails
smoothed_result(temperature, weights_in, keep_all_days) ==
    LET weights == chronological(weights_in)
        fill_value == IF keep_all_days THEN Whole(0) ELSE NaN
        rolled == construct(temperature, Len(weights))
        smoothed == [t \in 1..Len(temperature) |->
                        dot([j \in 1..Len(weights) |-> fillna(rolled[t][j], fill_value)],
                            weights)]
        total_weights_sum == SumSeq(weights)
        normalization_factors ==
            normalization_loop([t \in 1..Len(temperature) |-> total_weights_sum],
                               weights, 0)
    IN  IF keep_all_days
        THEN [t \in 1..Len(temperature) |-> Div(smoothed[t], normalization_factors[t])]
        ELSE [t \in 1..Len(temperature) |-> Div(smoothed[t], total_weights_sum)]

SeriesValues == {NaN, Whole(1), Whole(2)}

WeightValues == {Whole(-1), Whole(0), Whole(1), Whole(2)}

SmoothArgs ==
    [temperature : UNION {[1..n -> SeriesValues] : n \in 1..MaxLen},
     weights : UNION {[1..w -> WeightValues] : w \in 1..MaxW},
     keep_all_days : BOOLEAN]

\* weights [1,1,1,1] on the series [1,2,3,4,5]
SmoothExample ==
    [temperature |-> <<Whole(1), Whole(2), Whole(3), Whole(4), Whole(5)>>,
     weights |-> <<Whole(1), Whole(1), Whole(1), Whole(1)>>,
     keep_all_days |-> FALSE]

InitSmooth ==
    /\ fn = "smooth_temperature_xarray"
    /\ args \in SmoothArgs \cup {SmoothExample}
    /\ pc = "call"
    /\ ret = [out |-> <<>>]

smooth_temperature_xarray ==
    /\ pc = "call"
    /\ fn = "smooth_temperature_xarray"
    /\ IF args.keep_all_days /\ ~assert_no_nans(args.temperature)
       THEN /\ pc' = "AssertionError"
            /\ ret' = ret
       ELSE /\ pc' = "returned"
            /\ ret' = [out |-> smoothed_result(args.temperature, args.weights,
                                               args.keep_all_days)]
    /\ UNCHANGED <<fn, args>>

NextSmooth == smooth_temperature_xarray

SpecSmooth == InitSmooth /\ [][NextSmooth]_vars

(* -------------------------- get_hdd, get_cdd -------------------------- *)

\* xr.where(cond, x, y), one cell
where(cond, x, y) == IF cond THEN x ELSE y

\* mutant: the comparison of get_cdd with the difference of get_hdd
hdd_cell_wrong_side(temperature, threshold) ==
    where(Gt(temperature, threshold), Sub(threshold, temperature), Whole(0))

\* xr.where(temperature < threshold, threshold - temperature, 0), one cell
hdd_cell(temperature, threshold) ==
    where(Lt(temperature, threshold), Sub(threshold, temperature), Whole(0))

\* xr.where(temperature > threshold, temperature - threshold, 0), one cell
cdd_cell(temperature, threshold) ==
    where(Gt(temperature, threshold), Sub(temperature, threshold), Whole(0))

DegreeDayValues == {NaN, Whole(-5), Whole(16), Num(31, 2), Whole(30)}

ThresholdValues == {Whole(0), Num(31, 2), Whole(16)}

DegreeDayArgs ==
    [temperature : UNION {[1..n -> DegreeDayValues] : n \in 1..MaxCells},
     threshold : ThresholdValues]

\* one temperature array and one threshold, handed to both functions
InitDegreeDays ==
    /\ fn = "degree_days"
    /\ args \in DegreeDayArgs
    /\ pc = "call"
    /\ ret = [hdd |-> <<>>, cdd |-> <<>>]

get_hdd ==
    /\ fn = "degree_days"
    /\ ret.hdd = <<>>
    /\ ret' = [ret EXCEPT !.hdd = [c \in 1..Len(args.temperature) |->
                                      hdd_cell(args.temperature[c], args.threshold)]]
    /\ pc' = IF ret.cdd = <<>> THEN "call" ELSE "returned"
    /\ UNCHANGED <<fn, args>>

get_cdd ==
    /\ fn = "degree_days"
    /\ ret.cdd = <<>>
    /\ ret' = [ret EXCEPT !.cdd = [c \in 1..Len(args.temperature) |->
                                      cdd_cell(args.temperature[c], args.threshold)]]
    /\ pc' = IF ret.hdd = <<>> THEN "call" ELSE "returned"
    /\ UNCHANGED <<fn, args>>

NextDegreeDays == get_hdd \/ get_cdd

SpecDegreeDays == InitDegreeDays /\ [][NextDegreeDays]_vars

(* ------------------- calculate_wind_power_potential ------------------- *)

None == [k |-> "none", n |-> 0, d |-> 1]

\* air_density = 1.225
air_density == Num(49, 40)

RECURSIVE IntPow(_, _)
IntPow(b, e) == IF e = 0 THEN Whole(1) ELSE Mul(b, IntPow(b, e - 1))

\* b ** e for a rational exponent e >= 0 whose result is one of the listed
\* rationals
Pow(b, e) ==
    IF e.d = 1 THEN IntPow(b, e.n)
    ELSE CHOOSE r \in {Whole(1), Whole(2)} : IntPow(r, e.d) = IntPow(b, e.n)

\* if hub_height is not None and hub_height != 100.0:
\*     da_wind = da_wind * (hub_height / 100.0) ** alpha
extrapolate(w, hub_height, alpha) ==
    IF hub_height # None /\ hub_height # Whole(100)
    THEN Mul(w, Pow(Div(hub_height, Whole(100)), alpha))
    ELSE w

\* da_wind.where(da_wind <= cut_out_speed, other=0)
cut_out(w, cut_out_speed) == where(Le(w, cut_out_speed), w, Whole(0))

\* mutant: a speed equal to the cut-in speed is zeroed too
cut_in_strict(w, cut_in_speed) == where(Gt(w, cut_in_speed), w, Whole(0))

\* da_wind.where(da_wind >= cut_in_speed, other=0)
cut_in(w, cut_in_speed) == where(Ge(w, cut_in_speed), w, Whole(0))

\* da_wind.where(da_wind <= cap_speed, other=cap_speed)
cap(w, cap_speed) == where(Le(w, cap_speed), w, cap_speed)

\* 0.5 * air_density * da_wind ** 3
power_density(w) == Mul(Mul(Num(1, 2), air_density), IntPow(w, 3))

wind_power_density_cell(w100, hub_height, alpha, cap_speed, cut_out_speed, cut_in_speed) ==
    power_density(
        cap(cut_in(cut_out(extrapolate(w100, hub_height, alpha), cut_out_speed),
                   cut_in_speed),
            cap_speed))

WindValues ==
    {NaN, Whole(0), Num(29, 10), Whole(3), Whole(5), Whole(11), Whole(12),
     Whole(25), Num(251, 10), Whole(30)}

\* (hub_height, alpha): the defaults, the reference height, and heights whose
\* power-law factor is rational
HubConfigs ==
    {<<None, Num(1, 7)>>, <<Whole(100), Num(1, 7)>>, <<Whole(12800), Num(1, 7)>>,
     <<Whole(200), Whole(1)>>, <<Whole(50), Whole(2)>>, <<Whole(80), Whole(0)>>}

WindArgs ==
    [da_wind : UNION {[1..n -> WindValues] : n \in 1..MaxCells},
     hub : HubConfigs,
     cap_speed : {Whole(11), Whole(5)},
     cut_out_speed : {Whole(25), Whole(11)},
     cut_in_speed : {Whole(3), Whole(5)}]

InitWind ==
    /\ fn = "calculate_wind_power_potential"
    /\ args \in WindArgs
    /\ pc = "call"
    /\ ret = [out |-> <<>>, da_wind |-> <<>>]

calculate_wind_power_potential ==
    /\ pc = "call"
    /\ fn = "calculate_wind_power_potential"
    /\ pc' = "returned"
    /\ ret' = [out |-> [c \in 1..Len(args.da_wind) |->
                          wind_power_density_cell(args.da_wind[c], args.hub[1], args.hub[2],
                                                  args.cap_speed, args.cut_out_speed,
                                                  args.cut_in_speed)],
               da_wind |-> [c \in 1..Len(args.da_wind) |->
                              extrapolate(args.da_wind[c], args.hub[1], args.hub[2])]]
    /\ UNCHANGED <<fn, args>>

NextWind == calculate_wind_power_potential

SpecWind == InitWind /\ [][NextWind]_vars

(* ---------------------------- _bait_xarray ---------------------------- *)

\* np.exp at the arguments the modelled temperatures produce, to two or three
\* significant digits: exp(0) = 1, exp(-1.25) = 0.2865.., exp(2.24) = 9.393..,
\* exp(2.3) = 9.974.., exp(-34.9) = 6.97e-16 (nothing at the scale of the
\* humidities it is subtracted from), and exp(773.75), which overflows a
\* double to +inf.
exp(x) ==
    CASE x = Whole(0) -> Whole(1)
      [] x = Num(-5, 4) -> Num(2, 7)
      [] x = Num(56, 25) -> Num(47, 5)
      [] x = Num(23, 10) -> Whole(10)
      [] x = Num(-349, 10) -> Whole(0)
      [] x = Num(3095, 4) -> Inf(1)

\* setpoint_S = 100 + 7 * T
setpoint_S(T) == Add(Whole(100), Mul(Whole(7), T))

\* setpoint_W = 4.5 - 0.025 * T
setpoint_W(T) == Sub(Num(9, 2), Mul(Num(1, 40), T))

\* setpoint_H = np.exp(1.1 + 0.06 * T)/1000
setpoint_H(T) == Div(exp(Add(Num(11, 10), Mul(Num(3, 50), T))), Whole(1000))

\* setpoint_T = 16
setpoint_T == Whole(16)

\* N = T + (radiation - setpoint_S) * solar_gains + (wind - setpoint_W) * wind_chill
unsmoothed_index(T, radiation, wind_speed, solar_gains, wind_chill) ==
    Add(Add(T, Mul(Sub(radiation, setpoint_S(T)), solar_gains)),
        Mul(Sub(wind_speed, setpoint_W(T)), wind_chill))

\* discomfort = N - setpoint_T
\* N = setpoint_T + discomfort + discomfort * (humidity - setpoint_H) * humidity_discomfort
humidity_adjusted(N, T, humidity, humidity_discomfort) ==
    LET discomfort == Sub(N, setpoint_T)
    IN  Add(Add(setpoint_T, discomfort),
            Mul(Mul(discomfort, Sub(humidity, setpoint_H(T))), humidity_discomfort))

\* mutant: the block of smoothing**2 weights is missing
bait_weights_short(smoothing) ==
    [i \in 1..8 |-> IF i <= 4 THEN Whole(1) ELSE smoothing]

\* weights=[1]*4+[smoothing]*4+[smoothing**2]*4
bait_weights(smoothing) ==
    [i \in 1..12 |-> IF i <= 4 THEN Whole(1)
                     ELSE IF i <= 8 THEN smoothing
                     ELSE Mul(smoothing, smoothing)]

lower_blend == Whole(15)

upper_blend == Whole(23)

max_raw_var == Num(1, 2)

\* blend = (T - avg_blend) * 10 / dif_blend; blend = max_raw_var / (1 + np.exp(-blend))
blend_of(T) ==
    LET avg_blend == Div(Add(lower_blend, upper_blend), Whole(2))
        dif_blend == Sub(upper_blend, lower_blend)
        x == Div(Mul(Sub(T, avg_blend), Whole(10)), dif_blend)
    IN  Div(max_raw_var, Add(Whole(1), exp(Neg(x))))

\* mutant: blend is the share of N instead of the share of T
apply_blend_swapped(T, N, blend) == Add(Mul(N, blend), Mul(T, Sub(Whole(1), blend)))

\* N = (weather["temperature"] * blend) + (N * (1 - blend))
apply_blend(T, N, blend) == Add(Mul(T, blend), Mul(N, Sub(Whole(1), blend)))

bait_locals(weather, smoothing, solar_gains, wind_chill, humidity_discomfort) ==
    LET T == weather.temperature
        steps == 1..Len(T)
        N0 == [t \in steps |->
                humidity_adjusted(
                    unsmoothed_index(T[t], weather.radiation_global_horizontal[t],
                                     weather.wind_speed_2m[t], solar_gains, wind_chill),
                    T[t], weather.humidity[t], humidity_discomfort)]
        N == smoothed_result(N0, bait_weights(smoothing), FALSE)
        blend == [t \in steps |-> blend_of(T[t])]
    IN  [N |-> N, blend |-> blend,
         out |-> [t \in steps |-> apply_blend(T[t], N[t], blend[t])]]

Constant(v, n) == [t \in 1..n |-> v]

\* a series that is a up to step k and b after it
StepChange(a, b, k, n) == [t \in 1..n |-> IF t <= k THEN a ELSE b]

BaitLens == {NumSteps - 8, NumSteps}

BaitTemperatures ==
    UNION {{Constant(a, n) : a \in {Whole(-600), Whole(19), Whole(20)}}
           \cup {StepChange(a, b, k, n) : a \in {Whole(19), Whole(20)},
                                          b \in {Whole(19), Whole(20)}, k \in 1..(n - 1)}
           : n \in BaitLens}

\* (solar_gains, wind_chill, humidity_discomfort)
BaitCoefficients ==
    {<<Whole(0), Whole(0), Whole(0)>>, <<Num(1, 10), Whole(0), Whole(0)>>,
     <<Whole(0), Num(-1, 5), Whole(0)>>, <<Whole(0), Whole(0), Num(1, 2)>>}

InitBait ==
    /\ fn = "_bait_xarray"
    /\ \E T \in BaitTemperatures, r \in {Whole(0), Whole(100)}, w \in {Whole(0), Whole(5)},
          h \in {Whole(0), Num(1, 100)}, s \in {Num(1, 2), Whole(1)},
          c \in BaitCoefficients :
            args = [weather |-> [temperature |-> T,
                                 radiation_global_horizontal |-> Constant(r, Len(T)),
                                 wind_speed_2m |-> Constant(w, Len(T)),
                                 humidity |-> Constant(h, Len(T))],
                    smoothing |-> s, solar_gains |-> c[1], wind_chill |-> c[2],
                    humidity_discomfort |-> c[3]]
    /\ pc = "call"
    /\ ret = [N |-> <<>>, blend |-> <<>>, out |-> <<>>]

bait_xarray ==
    /\ pc = "call"
    /\ fn = "_bait_xarray"
    /\ pc' = "returned"
    /\ ret' = bait_locals(args.weather, args.smoothing, args.solar_gains,
                          args.wind_chill, args.humidity_discomfort)
    /\ UNCHANGED <<fn, args>>

NextBait == bait_xarray

SpecBait == InitBait /\ [][NextBait]_vars

(* ----------------- claims about smooth_temperature_xarray ------------- *)

SmoothReturned == fn = "smooth_temperature_xarray" /\ pc = "returned"

NoMissing(series) == \A t \in 1..Len(series) : ~isnull(series[t])

\* the public weights (most recent first) applied to steps t, t-1, ... of the
\* series, as far back as the series goes; t is the 0-indexed step
WeightedSum(series, weights, t) ==
    SumSeq([k \in 1..(IF t + 1 < Len(weights) THEN t + 1 ELSE Len(weights)) |->
                Mul(weights[k], series[t + 2 - k])])

\* weights[0] + ... + weights[i] in the public order, capped at the full list
ApplicableWeightSum(weights, i) ==
    SumSeq(SubSeq(weights, 1, IF i + 1 < Len(weights) THEN i + 1 ELSE Len(weights)))

\* the steps (0-indexed) at which the series is missing
MissingSteps(series) == {t \in 0..(Len(series) - 1) : isnull(series[t + 1])}

\* C1: with keep_all_days=true and no missing values, step i is the weighted
\* sum of its truncated window divided by weights[0]+...+weights[i] for
\* i < W-1 and by the full weight sum from step W-1 on.
C1_TruncatedNormalization ==
    (SmoothReturned /\ args.keep_all_days) =>
        \A i \in 0..(Len(args.temperature) - 1) :
            ret.out[i + 1] = Div(WeightedSum(args.temperature, args.weights, i),
                                 ApplicableWeightSum(args.weights, i))

\* C3: with keep_all_days=false, no missing values and a non-zero weight sum,
\* every step t >= W-1 is sum_k weights[k]*series[t-k] over the full window,
\* divided by the sum of all weights, weights[0] being the current step's;
\* weights [1,1,1,1] on [1,2,3,4,5] give 2.5 at step 3.
C3_FullWindowAverage ==
    /\ (SmoothReturned /\ ~args.keep_all_days /\ NoMissing(args.temperature)
            /\ SumSeq(args.weights) # Whole(0)) =>
            \A t \in (Len(args.weights) - 1)..(Len(args.temperature) - 1) :
                ret.out[t + 1] = Div(WeightedSum(args.temperature, args.weights, t),
                                     SumSeq(args.weights))
    /\ (SmoothReturned /\ args = SmoothExample) => ret.out[4] = Num(5, 2)

C3_Witness ==
    /\ SmoothReturned /\ ~args.keep_all_days /\ NoMissing(args.temperature)
    /\ args.weights = <<Whole(1), Whole(2), Whole(-1)>>
    /\ args.temperature = <<Whole(1), Whole(2), Whole(2), Whole(1)>>
    /\ ret.out[4] = Num(3, 2)

\* C5 as stated: a single missing value at step t makes steps t..t+W-1 of the
\* output missing whatever the weights, and no later step.
C5_SingleNaNWindow ==
    (SmoothReturned /\ ~args.keep_all_days
        /\ Cardinality(MissingSteps(args.temperature)) = 1) =>
        \A t \in MissingSteps(args.temperature) :
            \A s \in 0..(Len(args.temperature) - 1) :
                /\ (t <= s /\ s <= t + Len(args.weights) - 1) => isnull(ret.out[s + 1])
                /\ (s > t + Len(args.weights) - 1) => ~isnull(ret.out[s + 1])

\* C5 amended: a single missing value at step t makes steps t..t+W-1 of the
\* output missing whatever the weights (zero weights included); when the
\* weights' sum is not zero, no later step is missing.
C5_SingleNaNWindowNonZeroSum ==
    (SmoothReturned /\ ~args.keep_all_days
        /\ Cardinality(MissingSteps(args.temperature)) = 1) =>
        \A t \in MissingSteps(args.temperature) :
            \A s \in 0..(Len(args.temperature) - 1) :
                /\ (t <= s /\ s <= t + Len(args.weights) - 1) => isnull(ret.out[s + 1])
                /\ (s > t + Len(args.weights) - 1 /\ SumSeq(args.weights) # Whole(0))
                        => ~isnull(ret.out[s + 1])

C5_Witness ==
    /\ SmoothReturned /\ ~args.keep_all_days
    /\ args.weights = <<Whole(1), Whole(0)>>
    /\ args.temperature = <<Whole(1), NaN, Whole(2), Whole(2)>>
    /\ isnull(ret.out[3]) /\ ret.out[4] = Whole(2)

\* C6: with keep_all_days=true a series holding a missing value makes the call
\* fail with an error before any output is produced.
C6_KeepAllDaysRejectsNaN ==
    (fn = "smooth_temperature_xarray" /\ pc # "call" /\ args.keep_all_days
        /\ ~NoMissing(args.temperature)) =>
        (pc = "AssertionError" /\ ret.out = <<>>)

C6_Witness ==
    /\ fn = "smooth_temperature_xarray" /\ pc = "AssertionError"
    /\ args.keep_all_days
    /\ args.temperature = <<Whole(1), Whole(2), NaN>>

\* C10: with keep_all_days=false the call never fails and returns an array of
\* the input's length; with W > 1 every step t < W-1 of it is missing, so a
\* series shorter than W comes back missing at every step.
C10_WarmUpIsNaN ==
    (fn = "smooth_temperature_xarray" /\ pc # "call" /\ ~args.keep_all_days) =>
        /\ pc = "returned"
        /\ Len(ret.out) = Len(args.temperature)
        /\ \A t \in 0..(Len(args.temperature) - 1) :
                t < Len(args.weights) - 1 => isnull(ret.out[t + 1])

C10_Witness ==
    /\ SmoothReturned /\ ~args.keep_all_days
    /\ args.weights = <<Whole(1), Whole(1), Whole(1)>>
    /\ args.temperature = <<Whole(1), Whole(2)>>
    /\ ret.out = <<NaN, NaN>>

(* ---------------------- claims about get_hdd, get_cdd ----------------- *)

\* C4: a missing temperature gives a missing hdd and a missing cdd at that
\* cell, for every threshold.
C4_DegreeDaysPropagateNaN ==
    (fn = "degree_days" /\ pc = "returned") =>
        \A c \in 1..Len(args.temperature) :
            isnull(args.temperature[c]) => (isnull(ret.hdd[c]) /\ isnull(ret.cdd[c]))

\* C8: at a non-missing temperature T, hdd >= 0, cdd >= 0, at most one of them
\* is non-zero, and hdd - cdd = base - T.
C8_DegreeDayIdentity ==
    (fn = "degree_days" /\ pc = "returned") =>
        \A c \in 1..Len(args.temperature) :
            ~isnull(args.temperature[c]) =>
                /\ Ge(ret.hdd[c], Whole(0))
                /\ Ge(ret.cdd[c], Whole(0))
                /\ (ret.hdd[c] = Whole(0) \/ ret.cdd[c] = Whole(0))
                /\ Sub(ret.hdd[c], ret.cdd[c]) = Sub(args.threshold, args.temperature[c])

C8_Witness ==
    /\ fn = "degree_days" /\ pc = "returned"
    /\ args.temperature = <<Whole(-5), Whole(30)>>
    /\ args.threshold = Num(31, 2)
    /\ ret.hdd = <<Num(41, 2), Whole(0)>>
    /\ ret.cdd = <<Whole(0), Num(29, 2)>>

(* --------------- claims about calculate_wind_power_potential ---------- *)

\* C7: with 0 < cut_in_speed <= cap_speed <= cut_out_speed and w the speed
\* after extrapolation, the result is 0 for w < cut_in_speed or
\* w > cut_out_speed, 0.5*1.225*w^3 for cut_in_speed <= w <= cap_speed and
\* 0.5*1.225*cap_speed^3 for cap_speed <= w < cut_out_speed.
C7_PowerCurve ==
    (fn = "calculate_wind_power_potential" /\ pc = "returned"
        /\ Lt(Whole(0), args.cut_in_speed) /\ Le(args.cut_in_speed, args.cap_speed)
        /\ Le(args.cap_speed, args.cut_out_speed)) =>
        \A c \in 1..Len(args.da_wind) :
            LET w == ret.da_wind[c]
            IN  /\ (Lt(w, args.cut_in_speed) \/ Gt(w, args.cut_out_speed))
                        => ret.out[c] = Whole(0)
                /\ (Le(args.cut_in_speed, w) /\ Le(w, args.cap_speed))
                        => ret.out[c] = Mul(Num(49, 80), Mul(w, Mul(w, w)))
                /\ (Le(args.cap_speed, w) /\ Lt(w, args.cut_out_speed))
                        => ret.out[c] = Mul(Num(49, 80),
                                Mul(args.cap_speed, Mul(args.cap_speed, args.cap_speed)))

C7_Witness ==
    /\ fn = "calculate_wind_power_potential" /\ pc = "returned"
    /\ args.hub = <<Whole(12800), Num(1, 7)>>
    /\ args.cap_speed = Whole(11) /\ args.cut_out_speed = Whole(25)
    /\ args.cut_in_speed = Whole(3)
    /\ args.da_wind = <<Whole(11), Whole(3)>>
    /\ ret.da_wind = <<Whole(22), Whole(6)>>
    /\ ret.out = <<Num(65219, 80), Num(1323, 10)>>

(* ------------------------ claims about _bait_xarray ------------------- *)

BaitReturned == fn = "_bait_xarray" /\ pc = "returned"

NoForcing ==
    /\ args.solar_gains = Whole(0)
    /\ args.wind_chill = Whole(0)
    /\ args.humidity_discomfort = Whole(0)

ConstantTemperature ==
    \A t \in 1..Len(args.weather.temperature) :
        args.weather.temperature[t] = args.weather.temperature[1]

\* the scenario of C2: 16 steps, 20 degC at every step, smoothing = 0.5
Scenario ==
    /\ args.weather.temperature = Constant(Whole(20), 16)
    /\ args.smoothing = Num(1, 2)

\* C2 as stated: with the three coefficients 0 and the temperature 20 degC at
\* each of 16 steps (smoothing = 0.5), the output is 20 degC at every step,
\* the first 11 included.
C2_ConstantEverywhere ==
    (BaitReturned /\ NoForcing /\ Scenario) =>
        \A t \in 1..Len(args.weather.temperature) :
            ret.out[t] = args.weather.temperature[t]

\* C2 amended: with the three coefficients 0 and a constant temperature, the
\* output is missing at each of the first 11 steps and is that temperature at
\* every step from the 12th on.
C2_ConstantAfterWarmUp ==
    (BaitReturned /\ NoForcing /\ ConstantTemperature) =>
        \A t \in 1..Len(args.weather.temperature) :
            IF t <= 11 THEN isnull(ret.out[t])
            ELSE ret.out[t] = args.weather.temperature[t]

C2_Witness ==
    /\ BaitReturned /\ NoForcing
    /\ args.weather.temperature = Constant(Whole(20), 16)
    /\ args.weather.radiation_global_horizontal = Constant(Whole(0), 16)
    /\ args.weather.wind_speed_2m = Constant(Whole(0), 16)
    /\ args.weather.humidity = Constant(setpoint_H(Whole(20)), 16)
    /\ args.smoothing = Num(1, 2)
    /\ isnull(ret.out[11])
    /\ \A t \in 12..16 : ret.out[t] = Whole(20)

\* C9 as stated: where blend = 0 the output is the raw temperature, whatever
\* the smoothed index N is.
C9_ZeroBlendIsRawTemperature ==
    BaitReturned =>
        \A t \in 1..Len(args.weather.temperature) :
            ret.blend[t] = Whole(0) => ret.out[t] = args.weather.temperature[t]

\* C9 amended: where blend = 0 the output is the smoothed index N, whatever
\* the raw temperature is (blend is the share of the raw temperature, so the
\* raw temperature has no part in the output there).
C9_ZeroBlendIsSmoothedIndex ==
    BaitReturned =>
        \A t \in 1..Len(args.weather.temperature) :
            ret.blend[t] = Whole(0) => ret.out[t] = ret.N[t]

C9_Witness ==
    /\ BaitReturned
    /\ args.weather.temperature = Constant(Whole(-600), 16)
    /\ args.weather.radiation_global_horizontal = Constant(Whole(0), 16)
    /\ args.solar_gains = Num(1, 10)
    /\ ret.blend[16] = Whole(0)
    /\ ret.N[16] = Whole(-190)
    /\ ret.out[16] = Whole(-190)

====
